---- MODULE Spec2Model ----
(***************************************************************************)
(* Brute-force nearest-neighbour search of Labs/pygpu-extra-end2end.ipynb: *)
(* the warp shuffle reduction, the two kernels built on it and the host    *)
(* driver numba_cuda_solve, with the sequential numba_cpu_solve as oracle. *)
(*                                                                         *)
(* Distances.  All points lie on one meridian (longitude 0), where the     *)
(* haversine formula reduces to |lat1 - lat2|; latitudes are integers in   *)
(* 0..MaxLat.  The float32 seeds 1e11 and 1e30 are kept as two integers    *)
(* above every distance, in the same order (TLC integers are 32 bit).      *)
(*                                                                         *)
(* The last part models fast_matmul of Labs/Lab6-Writing_CUDA_Kernels.ipynb *)
(* and the cell that launches and validates it (SpecMatmul).  After it     *)
(* come the naive kernel matmul (SpecNaive), the two distance matrix       *)
(* kernels of the same notebook (SpecDist) and the two counts of the       *)
(* vectorization tutorial (SpecCount).                                     *)
(***************************************************************************)
EXTENDS Integers, Sequences, FiniteSets, TLC

VARIABLES
    d_obs,       \* observations: sequence of latitudes, observation i is d_obs[i + 1]
    d_ref,       \* references: N_REF = n, latitude lat at the indices in near, fill elsewhere
    cfg,         \* launch configuration of the two kernels
    hostpc,      \* position of the host inside numba_cuda_solve
    hostlog,     \* sequence of device API calls the host has completed
    launched,    \* kernels enqueued on the default stream (1: block, 2: global)
    pc1,         \* Phase 1: per warp, in grid order, the observation of its next iteration
    pc2,         \* Phase 2: the same
    block_dist,  \* d_block_dist[i, c]
    block_idx,   \* d_block_idx[i, c]
    out_dist,    \* d_out_dist[i]
    out_idx,     \* d_out_idx[i]
    wlog,        \* global-memory writes so far: <<array, cell, writing thread>>
    evals,       \* Phase 1, per observation: the references compared so far and the number of comparisons
    wreg,        \* warp registers of the reduction: [val, idx: lane -> value]
    win,         \* the registers on entry of the reduction
    wstep,       \* shuffle steps of the reduction already executed
    mat,         \* operands of the matmul cell: shapes and the buffers of A and B
    mC,          \* buffer of C, row-major
    mhost,       \* position of the host inside the fast_matmul cell
    hwExit,      \* whether a barrier counts a thread that has returned as arrived
    thr,         \* fast_matmul: per thread, its position and registers
    sh,          \* fast_matmul: per block, the shared tiles sA and sB
    data,        \* distance matrix cells: the points, a row-major n x 2 buffer
    distance_matrix, \* the n x n result of the kernel in hand, row-major
    dcfg,        \* the kernel in hand and its launch configuration
    dthr,        \* per thread of that kernel, its position and what it has done
    dhost,       \* position of the host inside the cell that runs the kernel
    lt           \* lessthank: the array X, the threshold k and the two computations

vars == <<d_obs, d_ref, cfg, hostpc, hostlog, launched, pc1, pc2,
          block_dist, block_idx, out_dist, out_idx, wlog, evals, wreg, win, wstep,
          mat, mC, mhost, hwExit, thr, sh,
          data, distance_matrix, dcfg, dthr, dhost, lt>>

solveVars == <<d_obs, d_ref, cfg, hostpc, hostlog, launched, pc1, pc2,
               block_dist, block_idx, out_dist, out_idx, wlog, evals>>

warpVars == <<wreg, win, wstep>>

matVars == <<mat, mC, mhost, hwExit, thr, sh>>

distVars == <<data, distance_matrix, dcfg, dthr, dhost>>

countVars == <<lt>>

(***************************************************************************)
(* Bounds of the model.                                                    *)
(***************************************************************************)
MaxLat == 2      \* latitudes are 0..MaxLat
MaxObs == 2      \* N_OBS is 0..MaxObs
MaxAhead == 1    \* a warp (a thread of fast_matmul) runs at most this many places ahead of the oldest one that can run
TPB == 2         \* tile width of fast_matmul (16 in the notebook): blocks of TPB x TPB threads
MaxPts == 2      \* the distance matrix cells have 1..MaxPts points
MaxLen == 3      \* lessthank: X has 0..MaxLen elements
MaxVal == 2      \* lessthank: the elements of X are -1..MaxVal, k is -1..MaxVal + 1

(***************************************************************************)
(* Program constants.                                                      *)
(***************************************************************************)
WarpSize == 32           \* lanes of a warp (mask 0xffffffff)
NCols == 32              \* columns of d_block_idx / d_block_dist
seed_block == 100000     \* float32(1e11): Phase 1 seed
seed_global_low == seed_block - 1

seed_global == 10000000  \* float32(1e30): Phase 2 seed
Uninit == -1             \* content of a cuda.device_array cell never written

Lanes == 0 .. (WarpSize - 1)

Min(S) == CHOOSE x \in S : \A y \in S : x <= y

(***************************************************************************)
(* _warp_min_reduce_idx_unrolled                                           *)
(***************************************************************************)
\* cuda.shfl_down_sync(mask, x, delta): lane l receives the value of lane
\* l + delta, and its own value when l + delta is not a lane of the warp.
ShflSrc_Wrap(l, delta) == (l + delta) % WarpSize

ShflSrc(l, delta) == IF l + delta < WarpSize THEN l + delta ELSE l

\* "if val > shfl_val: val = shfl_val; idx = shfl_idx": the <<val, idx>> a
\* lane holds after one exchange.
LaneStep_NoIdx(val, idx, shfl_val, shfl_idx) ==
    IF val > shfl_val THEN <<shfl_val, idx>> ELSE <<val, idx>>

LaneStep_Max(val, idx, shfl_val, shfl_idx) ==
    IF val < shfl_val THEN <<shfl_val, shfl_idx>> ELSE <<val, idx>>

LaneStep_GE(val, idx, shfl_val, shfl_idx) ==
    IF val >= shfl_val THEN <<shfl_val, shfl_idx>> ELSE <<val, idx>>

LaneStep(val, idx, shfl_val, shfl_idx) ==
    IF val > shfl_val THEN <<shfl_val, shfl_idx>> ELSE <<val, idx>>

\* The five unrolled offsets, in program order.
Offsets_Short == <<16, 8, 4, 2>>

Offsets == <<16, 8, 4, 2, 1>>

\* One exchange on the registers of all lanes, r = [val, idx : lane -> value].
ReduceStep(r, delta) ==
    LET after == [l \in Lanes |->
                    LaneStep(r.val[l], r.idx[l],
                             r.val[ShflSrc(l, delta)], r.idx[ShflSrc(l, delta)])]
    IN  [val |-> [l \in Lanes |-> after[l][1]],
         idx |-> [l \in Lanes |-> after[l][2]]]

\* <<val, idx>> of lane l after the first k exchanges, from the registers r
\* on entry: the same exchanges, evaluated for the lanes that l depends on.
RECURSIVE LaneAfter(_, _, _)
LaneAfter(r, k, l) ==
    IF k = 0 THEN <<r.val[l], r.idx[l]>>
    ELSE LET own == LaneAfter(r, k - 1, l)
             got == LaneAfter(r, k - 1, ShflSrc(l, Offsets[k]))
         IN  LaneStep(own[1], own[2], got[1], got[2])

\* What lane l returns.
warp_min_reduce_idx_unrolled(r, l) == LaneAfter(r, Len(Offsets), l)

(***************************************************************************)
(* Inputs and distances                                                    *)
(***************************************************************************)
N_OBS == Len(d_obs)      \* d_obs.shape[0]; observation i is d_obs[i + 1]
N_REF == d_ref.n         \* d_ref.shape[0]

\* Latitude of reference j: d_ref.lat on the indices d_ref.near, d_ref.fill elsewhere.
RefLat(j) == IF j \in d_ref.near THEN d_ref.lat ELSE d_ref.fill

\* 2 asin(sqrt(sin^2(dlat/2) + cos cos sin^2(dlon/2))) with dlon = 0.
Haversine(lat1, lat2) == IF lat1 >= lat2 THEN lat1 - lat2 ELSE lat2 - lat1

\* local_val of observation i and reference j.
Dist(i, j) == Haversine(d_obs[i + 1], RefLat(j))

(***************************************************************************)
(* Launch configurations: <<x, y>> blocks per grid and threads per block.  *)
(***************************************************************************)
Bpg1_Half == <<16, 128>>

Bpg1 == <<32, 128>>
Tpb1_Narrow == <<16, 32>>

Tpb1 == <<32, 16>>
Bpg2 == <<1, 2560>>
Tpb2_Narrow == <<16, 32>>

Tpb2 == <<32, 16>>

CodeCfg == [bpg1 |-> Bpg1, tpb1 |-> Tpb1, bpg2 |-> Bpg2, tpb2 |-> Tpb2]

\* A warp is <<blockIdx.x, blockIdx.y, threadIdx.y>>: with blockDim.x = WarpSize
\* the 32 threads of one threadIdx.y row of a block form one warp and
\* threadIdx.x is the lane.
LaneId(tx, ty, tpb) == (ty * tpb[1] + tx) % WarpSize

\* cuda.grid(2) and cuda.gridsize(2)
Startx_NoBlock(w, tx, tpb) == tx

Startx(w, tx, tpb) == w[1] * tpb[1] + tx

Starty_NoBlock(w, tpb) == w[3]

Starty(w, tpb) == w[2] * tpb[2] + w[3]

Stridex_BlockOnly(bpg, tpb) == tpb[1]

Stridex(bpg, tpb) == bpg[1] * tpb[1]
Stridey_Double(bpg, tpb) == 2 * bpg[2] * tpb[2]

Stridey(bpg, tpb) == bpg[2] * tpb[2]

\* The warps whose loop over observations has at least one iteration, in grid
\* order (blocks row-major, then threadIdx.y); every other warp of the grid has
\* starty >= n and leaves the kernel at once.  Block rows below n \div tpb.y
\* are entirely active, the next one has n % tpb.y active warps per block.
FullRows(bpg, tpb, n) == IF n \div tpb[2] < bpg[2] THEN n \div tpb[2] ELSE bpg[2]

PartRow(bpg, tpb, n) == IF n \div tpb[2] < bpg[2] THEN n % tpb[2] ELSE 0

NWarps(bpg, tpb, n) ==
    FullRows(bpg, tpb, n) * bpg[1] * tpb[2] + bpg[1] * PartRow(bpg, tpb, n)

\* The k-th of them, k in 1..NWarps.
WarpAt(k, bpg, tpb, n) ==
    LET full == FullRows(bpg, tpb, n) * bpg[1] * tpb[2]
        part == PartRow(bpg, tpb, n)
        r == k - 1 - full
    IN  IF k - 1 < full
        THEN <<((k - 1) \div tpb[2]) % bpg[1], (k - 1) \div (bpg[1] * tpb[2]), (k - 1) % tpb[2]>>
        ELSE <<r \div part, FullRows(bpg, tpb, n), r % part>>

(***************************************************************************)
(* _block_get_nearest_brute                                                *)
(***************************************************************************)
\* for j in range(j, coord1.shape[0], stridex): keep the running minimum.
\* if local_val < b_min_val
Closer_OrEqual(local_val, b_min_val) == local_val <= b_min_val

Closer(local_val, b_min_val) == local_val < b_min_val

RECURSIVE ScanRefs(_, _, _, _, _)
ScanRefs(i, j, stridex, b_min_val, b_min_idx) ==
    IF j >= N_REF THEN <<b_min_val, b_min_idx>>
    ELSE LET local_val == Dist(i, j)
         IN  IF Closer(local_val, b_min_val)
             THEN ScanRefs(i, j + stridex, stridex, local_val, j)
             ELSE ScanRefs(i, j + stridex, stridex, b_min_val, b_min_idx)

\* range(j, coord1.shape[0], stridex): the references thread tx of warp w
\* compares with an observation.
LaneRefs(w, tx, bpg, tpb) ==
    LET j == Startx(w, tx, tpb)
    IN  IF j >= N_REF THEN {}
        ELSE {j + n * Stridex(bpg, tpb) : n \in 0 .. ((N_REF - 1 - j) \div Stridex(bpg, tpb))}

\* The comparisons of one iteration of warp w, as <<threadIdx.x, j>>.
WarpPairs(w, bpg, tpb) ==
    UNION {{<<tx, j>> : j \in LaneRefs(w, tx, bpg, tpb)} : tx \in Lanes}

\* One iteration of the loop over observations by the 32 lanes of warp w:
\* the registers b_min_val, b_min_idx after the scan of the references.
BlockScan_SeedZero(w, i, bpg, tpb) ==
    LET scan == [tx \in Lanes |->
                    ScanRefs(i, Startx(w, tx, tpb), Stridex(bpg, tpb), 0, 0)]
    IN  [val |-> [tx \in Lanes |-> scan[tx][1]],
         idx |-> [tx \in Lanes |-> scan[tx][2]]]

BlockScan(w, i, bpg, tpb) ==
    LET scan == [tx \in Lanes |->
                    ScanRefs(i, Startx(w, tx, tpb), Stridex(bpg, tpb), seed_block, 0)]
    IN  [val |-> [tx \in Lanes |-> scan[tx][1]],
         idx |-> [tx \in Lanes |-> scan[tx][2]]]

(***************************************************************************)
(* _global_get_nearest_brute                                               *)
(***************************************************************************)
\* A load from a device cell: a cell never written yields whatever the
\* memory held.
Load(cell, garbage) == IF cell = Uninit THEN garbage ELSE cell

Garbage == [dist : {0, seed_global}, idx : {0, 999}]

\* for j in range(j, block_idx.shape[1], stridex): every iteration reads
\* column threadIdx.x of row i of the arrays bd (block_dist), bi (block_idx).
RECURSIVE ScanCols(_, _, _, _, _, _, _, _, _)
ScanCols(bd, bi, i, tx, j, stridex, g_min_dist, g_min_idx, g) ==
    IF j >= NCols THEN <<g_min_dist, g_min_idx>>
    ELSE LET local_dist == Load(bd[<<i, tx>>], g.dist)
         IN  IF local_dist < g_min_dist
             THEN ScanCols(bd, bi, i, tx, j + stridex, stridex, local_dist,
                           Load(bi[<<i, tx>>], g.idx), g)
             ELSE ScanCols(bd, bi, i, tx, j + stridex, stridex, g_min_dist, g_min_idx, g)

\* One iteration of the loop over observations by the 32 lanes of warp w:
\* the registers g_min_dist, g_min_idx after the scan of the columns.
GlobalScan_NoIdx(bd, bi, w, i, g, bpg, tpb) ==
    LET scan == [tx \in Lanes |->
                    ScanCols(bd, bi, i, tx, Startx(w, tx, tpb), Stridex(bpg, tpb),
                             seed_global, 0, g)]
    IN  [val |-> [tx \in Lanes |-> scan[tx][1]],
         idx |-> [tx \in Lanes |-> 0]]

GlobalScan(bd, bi, w, i, g, bpg, tpb) ==
    LET scan == [tx \in Lanes |->
                    ScanCols(bd, bi, i, tx, Startx(w, tx, tpb), Stridex(bpg, tpb),
                             seed_global, 0, g)]
    IN  [val |-> [tx \in Lanes |-> scan[tx][1]],
         idx |-> [tx \in Lanes |-> scan[tx][2]]]

\* The garbage a Phase 2 iteration can see: one choice when every cell of
\* row i it loads has been written.
GarbageSeen(i) ==
    IF \E c \in 0 .. (NCols - 1) :
           block_dist[<<i, c>>] = Uninit \/ block_idx[<<i, c>>] = Uninit
    THEN Garbage
    ELSE {[dist |-> 0, idx |-> 0]}

(***************************************************************************)
(* The device: the default stream and the warp scheduler                   *)
(***************************************************************************)
\* pc1 and pc2 list the next observation index of each such warp.
Pending(pc) == {k \in 1 .. Len(pc) : pc[k] < N_OBS}

\* A kernel is complete when every warp of its grid has left the loop over i.
KernelDone_FirstWarp(k) ==
    /\ k \in launched
    /\ 1 \notin Pending(IF k = 1 THEN pc1 ELSE pc2)

KernelDone(k) ==
    /\ k \in launched
    /\ Pending(IF k = 1 THEN pc1 ELSE pc2) = {}

\* Kernels launched on the same stream run in launch order: a kernel starts
\* when every kernel launched before it has completed.
StreamReady_Unordered(k) == k \in launched

StreamReady(k) ==
    /\ k \in launched
    /\ \A e \in launched : e < k => KernelDone(e)

\* cuda.synchronize() returns when the device has no unfinished kernel.
SyncReturns_NoWait == TRUE

SyncReturns == \A k \in launched : KernelDone(k)

\* The scheduler runs any unfinished warp at most MaxAhead places after the
\* oldest unfinished one.
Runnable_None(pc) == {}

Runnable(pc) ==
    LET P == Pending(pc)
    IN  IF P = {} THEN {} ELSE {k \in P : k <= Min(P) + MaxAhead}

\* The column of block_dist / block_idx a Phase 1 warp writes: cuda.blockIdx.x.
BlockCol(w) == w[1]

\* if cuda.laneid == 0: the threads of row w[3] of the block that store the
\* result of the warp, as <<kernel, warp, threadIdx.x>>.
Writers_Mod16(kernel, w, tpb) ==
    {<<kernel, w, tx>> : tx \in {t \in 0 .. (tpb[1] - 1) : LaneId(t, w[3], tpb) % 16 = 0}}

Writers(kernel, w, tpb) ==
    {<<kernel, w, tx>> : tx \in {t \in 0 .. (tpb[1] - 1) : LaneId(t, w[3], tpb) = 0}}

\* One iteration of the loop over observations of a Phase 1 warp.
Warp1Step_AlsoOut(k) ==
    /\ StreamReady(1)
    /\ LET i == pc1[k]
           w == WarpAt(k, cfg.bpg1, cfg.tpb1, N_OBS)
           writer == CHOOSE tx \in Lanes : LaneId(tx, w[3], cfg.tpb1) = 0
           b_min == warp_min_reduce_idx_unrolled(
                        BlockScan(w, i, cfg.bpg1, cfg.tpb1), writer)
       IN  /\ block_dist' = [block_dist EXCEPT ![<<i, BlockCol(w)>>] = b_min[1]]
           /\ block_idx' = [block_idx EXCEPT ![<<i, BlockCol(w)>>] = b_min[2]]
           /\ out_dist' = [out_dist EXCEPT ![i] = b_min[1]]
           /\ pc1' = [pc1 EXCEPT ![k] = i + Stridey(cfg.bpg1, cfg.tpb1)]
           /\ wlog' = wlog \cup {<<"block", <<i, BlockCol(w)>>, t>> :
                                    t \in Writers(1, w, cfg.tpb1)}
           /\ evals' = [evals EXCEPT ![i] =
                            [refs |-> @.refs \cup {e[2] : e \in WarpPairs(w, cfg.bpg1, cfg.tpb1)},
                             n |-> @.n + Cardinality(WarpPairs(w, cfg.bpg1, cfg.tpb1))]]
    /\ UNCHANGED <<d_obs, d_ref, cfg, hostpc, hostlog, launched, pc2,
                   out_idx, warpVars, matVars,
                   distVars, countVars>>

Warp1Step(k) ==
    /\ StreamReady(1)
    /\ LET i == pc1[k]
           w == WarpAt(k, cfg.bpg1, cfg.tpb1, N_OBS)
           writer == CHOOSE tx \in Lanes : LaneId(tx, w[3], cfg.tpb1) = 0
           b_min == warp_min_reduce_idx_unrolled(
                        BlockScan(w, i, cfg.bpg1, cfg.tpb1), writer)
       IN  /\ block_dist' = [block_dist EXCEPT ![<<i, BlockCol(w)>>] = b_min[1]]
           /\ block_idx' = [block_idx EXCEPT ![<<i, BlockCol(w)>>] = b_min[2]]
           /\ pc1' = [pc1 EXCEPT ![k] = i + Stridey(cfg.bpg1, cfg.tpb1)]
           /\ wlog' = wlog \cup {<<"block", <<i, BlockCol(w)>>, t>> :
                                    t \in Writers(1, w, cfg.tpb1)}
           /\ evals' = [evals EXCEPT ![i] =
                            [refs |-> @.refs \cup {e[2] : e \in WarpPairs(w, cfg.bpg1, cfg.tpb1)},
                             n |-> @.n + Cardinality(WarpPairs(w, cfg.bpg1, cfg.tpb1))]]
    /\ UNCHANGED <<d_obs, d_ref, cfg, hostpc, hostlog, launched, pc2,
                   out_dist, out_idx, warpVars, matVars,
                   distVars, countVars>>

\* One iteration of the loop over observations of a Phase 2 warp.
Warp2Step(k) ==
    /\ StreamReady(2)
    /\ LET i == pc2[k]
           w == WarpAt(k, cfg.bpg2, cfg.tpb2, N_OBS)
           writer == CHOOSE tx \in Lanes : LaneId(tx, w[3], cfg.tpb2) = 0
       IN  \E g \in GarbageSeen(i) :
             LET g_min == warp_min_reduce_idx_unrolled(
                              GlobalScan(block_dist, block_idx, w, i, g,
                                         cfg.bpg2, cfg.tpb2), writer)
             IN  /\ out_dist' = [out_dist EXCEPT ![i] = g_min[1]]
                 /\ out_idx' = [out_idx EXCEPT ![i] = g_min[2]]
                 /\ pc2' = [pc2 EXCEPT ![k] = i + Stridey(cfg.bpg2, cfg.tpb2)]
                 /\ wlog' = wlog \cup {<<"out", <<i>>, t>> :
                                          t \in Writers(2, w, cfg.tpb2)}
    /\ UNCHANGED <<d_obs, d_ref, cfg, hostpc, hostlog, launched, pc1,
                   block_dist, block_idx, evals, warpVars, matVars,
                   distVars, countVars>>

(***************************************************************************)
(* numba_cuda_solve (host)                                                 *)
(***************************************************************************)
\* The four cuda.device_array allocations.
HostAlloc ==
    /\ hostpc = "alloc"
    /\ out_idx' = [i \in 0 .. (N_OBS - 1) |-> Uninit]
    /\ out_dist' = [i \in 0 .. (N_OBS - 1) |-> Uninit]
    /\ block_idx' = [c \in (0 .. (N_OBS - 1)) \X (0 .. (NCols - 1)) |-> Uninit]
    /\ block_dist' = [c \in (0 .. (N_OBS - 1)) \X (0 .. (NCols - 1)) |-> Uninit]
    /\ hostpc' = "launch_block"
    /\ UNCHANGED <<d_obs, d_ref, cfg, hostlog, launched, pc1, pc2, wlog, evals, warpVars, matVars,
                   distVars, countVars>>

\* block_min_reduce[bpg, tpb](d_ref, d_obs, d_block_idx, d_block_dist)
HostLaunchBlock ==
    /\ hostpc = "launch_block"
    /\ launched' = launched \cup {1}
    /\ pc1' = [k \in 1 .. NWarps(cfg.bpg1, cfg.tpb1, N_OBS) |->
                Starty(WarpAt(k, cfg.bpg1, cfg.tpb1, N_OBS), cfg.tpb1)]
    /\ evals' = [i \in 0 .. (N_OBS - 1) |-> [refs |-> {}, n |-> 0]]
    /\ hostlog' = Append(hostlog, "block_min_reduce")
    /\ hostpc' = "launch_global"
    /\ UNCHANGED <<d_obs, d_ref, cfg, pc2, block_dist, block_idx,
                   out_dist, out_idx, wlog, warpVars, matVars,
                   distVars, countVars>>

\* global_min_reduce[bpg, tpb](d_block_dist, d_block_idx, d_out_dist, d_out_idx)
HostLaunchGlobal ==
    /\ hostpc = "launch_global"
    /\ launched' = launched \cup {2}
    /\ pc2' = [k \in 1 .. NWarps(cfg.bpg2, cfg.tpb2, N_OBS) |->
                Starty(WarpAt(k, cfg.bpg2, cfg.tpb2, N_OBS), cfg.tpb2)]
    /\ hostlog' = Append(hostlog, "global_min_reduce")
    /\ hostpc' = "synchronize"
    /\ UNCHANGED <<d_obs, d_ref, cfg, pc1, block_dist, block_idx,
                   out_dist, out_idx, wlog, evals, warpVars, matVars,
                   distVars, countVars>>

\* cuda.synchronize()
HostSynchronize ==
    /\ hostpc = "synchronize"
    /\ SyncReturns
    /\ hostlog' = Append(hostlog, "synchronize")
    /\ hostpc' = "return"
    /\ UNCHANGED <<d_obs, d_ref, cfg, launched, pc1, pc2, block_dist, block_idx,
                   out_dist, out_idx, wlog, evals, warpVars, matVars,
                   distVars, countVars>>

\* return d_out_idx, d_out_dist
HostReturn ==
    /\ hostpc = "return"
    /\ hostpc' = "returned"
    /\ UNCHANGED <<d_obs, d_ref, cfg, hostlog, launched, pc1, pc2,
                   block_dist, block_idx, out_dist, out_idx, wlog, evals, warpVars, matVars,
                   distVars, countVars>>

(***************************************************************************)
(* Inputs of numba_cuda_solve                                              *)
(***************************************************************************)
\* No observation, one observation at any latitude, or n >= 2 observations
\* at latitudes 0, 1, 2, ... (mod MaxLat + 1).
ObsInputs ==
    {<< >>} \cup {<<o>> : o \in 0 .. MaxLat}
            \cup {[i \in 1 .. n |-> (i - 1) % (MaxLat + 1)] : n \in 2 .. MaxObs}

\* Reference sets: latitude 1 on a set of "near" indices and 0 elsewhere.
\* The near indices are lanes 1 and 2 of block column 1 and lane 1 of block
\* column 2; with 1030 references every thread of Phase 1 scans at least one
\* and the first six threads scan two, with 3 only three threads scan any.
RefSizes == {0, 3, 1030}

NearIdx == {33, 34, 65}

RefInputs ==
    {[n |-> n, near |-> S, lat |-> 1, fill |-> 0] :
        n \in RefSizes, S \in SUBSET NearIdx}

WellFormedRef(r) == \A j \in r.near : j < r.n

WarpIdle == wreg = << >> /\ win = << >> /\ wstep = 0

DistIdle ==
    /\ data = << >> /\ distance_matrix = << >> /\ dcfg = << >>
    /\ dthr = << >> /\ dhost = "idle"

CountIdle == lt = << >>

MatIdle ==
    /\ mat = << >> /\ mC = << >> /\ mhost = "idle" /\ hwExit = FALSE
    /\ thr = << >> /\ sh = << >>

InitSolve ==
    /\ d_obs \in ObsInputs
    /\ d_ref \in {r \in RefInputs : WellFormedRef(r)}
    /\ hostpc = "alloc"
    /\ hostlog = << >>
    /\ launched = {}
    /\ pc1 = << >> /\ pc2 = << >>
    /\ block_dist = << >> /\ block_idx = << >> /\ out_dist = << >> /\ out_idx = << >>
    /\ wlog = {} /\ evals = << >>
    /\ WarpIdle
    /\ MatIdle
    /\ DistIdle
    /\ CountIdle

Init == InitSolve /\ cfg = CodeCfg

Next ==
    \/ HostAlloc
    \/ HostLaunchBlock
    \/ HostLaunchGlobal
    \/ HostSynchronize
    \/ HostReturn
    \/ \E k \in Runnable(pc1) : Warp1Step(k)
    \/ \E k \in Runnable(pc2) : Warp2Step(k)

Spec == Init /\ [][Next]_vars

Returned == hostpc = "returned"

Obs == 0 .. (N_OBS - 1)
Refs == 0 .. (N_REF - 1)

\* C1: on return, with a non-empty reference set, the distance reported for
\* observation i is the minimum over all references j of Dist(i, j).
C1_DistanceIsMinimum ==
    (Returned /\ N_REF > 0) =>
        \A i \in Obs : out_dist[i] = Min({Dist(i, j) : j \in Refs})

C1_Witness ==
    /\ Returned /\ N_REF = 1030 /\ N_OBS = 2
    /\ \E i \in Obs : out_idx[i] = 65 /\ out_dist[i] < Dist(i, 0)
    /\ \A k \in 1 .. Len(pc1) : pc1[k] >= N_OBS

\* C2: on return, with a non-empty reference set, the index reported for
\* observation i is a reference index and the distance from i to that
\* reference is the distance reported for i.
C2_IndexMatchesDistance ==
    (Returned /\ N_REF > 0) =>
        \A i \in Obs : out_idx[i] \in Refs /\ Dist(i, out_idx[i]) = out_dist[i]

C2_Witness ==
    /\ Returned /\ N_REF = 1030 /\ d_ref.near = {33, 34, 65}
    /\ \E i \in Obs : out_idx[i] = 65 /\ out_dist[i] = 0 /\ Dist(i, 0) > 0

(***************************************************************************)
(* numba_cpu_solve: the sequential double loop                             *)
(***************************************************************************)
numba_cpu_haversine(lat1, lat2) == IF lat2 >= lat1 THEN lat2 - lat1 ELSE lat1 - lat2

\* The body of the loop over ref_idx, on glob_min = <<glob_min_dist, glob_min_idx>>.
CpuVisit(obs_idx, ref_idx, glob_min) ==
    LET temp_dist == numba_cpu_haversine(d_obs[obs_idx + 1], RefLat(ref_idx))
    IN  IF temp_dist < glob_min[1] THEN <<temp_dist, ref_idx>> ELSE glob_min

\* for ref_idx in range(lo, hi), in increasing order: the range is split in
\* two halves, the second visited with the result of the first (bound by the
\* set constructor, so that it is evaluated first and the evaluation stays
\* shallow).
RECURSIVE CpuScan(_, _, _, _)
CpuScan(obs_idx, lo, hi, glob_min) ==
    IF lo >= hi THEN glob_min
    ELSE IF hi = lo + 1 THEN CpuVisit(obs_idx, lo, glob_min)
    ELSE LET mid == (lo + hi) \div 2
         IN  CHOOSE last \in {CpuScan(obs_idx, mid, hi, first) :
                                first \in {CpuScan(obs_idx, lo, mid, glob_min)}} : TRUE

\* <<out_dist[obs_idx], out_idx[obs_idx]>> of numba_cpu_solve.
numba_cpu_solve(obs_idx) == CpuScan(obs_idx, 0, N_REF, <<seed_block, 0>>)

\* The references at minimal distance from observation i.
Nearest(i) == {j \in Refs : \A m \in Refs : Dist(i, j) <= Dist(i, m)}

CodeBlock(i, c) ==
    warp_min_reduce_idx_unrolled(BlockScan(<<c, 0, 0>>, i, Bpg1, Tpb1), 0)

\* <<out_dist[i], out_idx[i]>> computed from those.
CodeResult(i) ==
    LET bd == [x \in {i} \X (0 .. (NCols - 1)) |-> CodeBlock(i, x[2])[1]]
        bi == [x \in {i} \X (0 .. (NCols - 1)) |-> CodeBlock(i, x[2])[2]]
    IN  warp_min_reduce_idx_unrolled(
            GlobalScan(bd, bi, <<0, 0, 0>>, i, [dist |-> 0, idx |-> 0], Bpg2, Tpb2), 0)

\* C7: with the inputs and the launch configuration fixed, every execution,
\* whatever the order of the warps, returns the same (index, distance) for
\* every observation, also when references tie at minimal distance.
C7_ScheduleIndependent ==
    Returned => \A i \in Obs : <<out_dist[i], out_idx[i]>> = CodeResult(i)

C7_Witness ==
    /\ Returned /\ N_OBS = 2
    /\ \E i \in Obs : Cardinality(Nearest(i)) = 2 /\ out_idx[i] \in Nearest(i)

\* C8: with an empty reference set every observation gets the Phase 1 seed
\* as distance and index 0, although Phase 2 starts from its own larger seed.
C8_EmptyReferenceSet ==
    (Returned /\ N_REF = 0) =>
        \A i \in Obs : out_dist[i] = seed_block /\ out_idx[i] = 0

C8_Witness ==
    /\ Returned /\ N_REF = 0 /\ N_OBS = 2
    /\ \A i \in Obs : out_dist[i] = seed_block /\ out_dist[i] < seed_global

\* The host called a before b and b before c.
InOrder(a, b, c) ==
    \E x, y, z \in 1 .. Len(hostlog) :
        /\ x < y /\ y < z
        /\ hostlog[x] = a /\ hostlog[y] = b /\ hostlog[z] = c

Phase2Started == \E i \in DOMAIN out_dist : out_dist[i] # Uninit

\* C9 (as claimed): Phase 2 is launched only after the host has passed a
\* device-wide synchronization issued after the launch of Phase 1.
C9_SyncBetweenLaunches ==
    2 \in launched => InOrder("block_min_reduce", "synchronize", "global_min_reduce")

\* C9 (amended): the host launches Phase 2 directly after Phase 1, with no
\* synchronization between the two launches; the two kernels are ordered by
\* the stream alone: no Phase 2 warp writes before every Phase 1 warp has
\* finished.
C9_OrderedByStreamOnly ==
    /\ 2 \in launched =>
           /\ Len(hostlog) >= 2
           /\ hostlog[1] = "block_min_reduce"
           /\ hostlog[2] = "global_min_reduce"
    /\ Phase2Started => KernelDone(1)

C9_Witness ==
    /\ Phase2Started
    /\ hostpc = "synchronize"
    /\ hostlog = <<"block_min_reduce", "global_min_reduce">>
    /\ Pending(pc2) # {}

\* C10: the caller gets the output arrays only after a synchronization issued
\* after the Phase 2 launch has returned: no warp of either kernel is running.
C10_ReturnAfterSync ==
    Returned =>
        /\ InOrder("block_min_reduce", "global_min_reduce", "synchronize")
        /\ Pending(pc1) = {} /\ Pending(pc2) = {}
        /\ \A i \in Obs : out_dist[i] # Uninit /\ out_idx[i] # Uninit

C10_Witness ==
    /\ Returned /\ N_OBS = 2 /\ N_REF = 1030
    /\ hostlog[Len(hostlog)] = "synchronize"

\* The cells of global memory written so far.
Written == {<<e[1], e[2]>> : e \in wlog}

\* C11: no cell of block_dist / block_idx is written by two threads in
\* Phase 1 and no entry of out_dist / out_idx by two threads in Phase 2.
C11_SingleWriter == Cardinality(Written) = Cardinality(wlog)

C11_Witness ==
    /\ Returned /\ N_OBS = 2 /\ N_REF = 1030
    /\ Cardinality(wlog) = N_OBS * NCols + N_OBS

\* A step of a Phase 1 warp.
Phase1Step == pc1' # pc1 /\ hostpc' = hostpc

\* C18: a step of Phase 1 changes at most block_dist and block_idx: the
\* references, the observations and out_dist / out_idx are unchanged.
C18_Phase1WritesBlockOnly ==
    [][Phase1Step => UNCHANGED <<d_ref, d_obs, out_dist, out_idx>>]_vars

C18_Witness ==
    /\ N_OBS = 2 /\ KernelDone(1)
    /\ 2 \in launched /\ hostpc = "synchronize"
    /\ \A c \in DOMAIN block_dist : block_dist[c] # Uninit
    /\ \A i \in Obs : out_dist[i] = Uninit /\ out_idx[i] = Uninit

(***************************************************************************)
(* The same driver under other launch configurations                       *)
(***************************************************************************)
LaunchCfgs ==
    { CodeCfg,
      [CodeCfg EXCEPT !.bpg1 = <<32, 2>>, !.tpb1 = <<32, 1>>],
      [CodeCfg EXCEPT !.bpg1 = <<32, 1>>, !.tpb1 = <<32, 1>>,
                      !.bpg2 = <<1, 1>>, !.tpb2 = <<32, 1>>],
      [CodeCfg EXCEPT !.bpg1 = <<16, 128>>],
      [CodeCfg EXCEPT !.bpg2 = <<2, 2560>>] }

InitLaunch ==
    /\ InitSolve
    /\ cfg \in LaunchCfgs
    /\ N_REF = 1030 /\ d_ref.near \in {{33, 34}, {65}}

SpecLaunch == InitLaunch /\ [][Next]_vars

\* C6: every launch configuration whose grid-stride loops cover all
\* observations and all references gives the index and the distance that the
\* configuration of numba_cuda_solve gives.
C6_AnyConfiguration ==
    Returned => \A i \in Obs : <<out_dist[i], out_idx[i]>> = CodeResult(i)

\* C19: on return both outputs have one entry per observation and Phase 2
\* has written every one of them, also when the Phase 2 grid has fewer
\* thread rows than observations and when there is no observation.
C19_OutputsComplete ==
    Returned =>
        /\ DOMAIN out_dist = Obs /\ DOMAIN out_idx = Obs
        /\ \A i \in Obs : /\ <<"out", <<i>>>> \in Written
                           /\ out_dist[i] # Uninit /\ out_idx[i] # Uninit

C19_Witness ==
    /\ Returned /\ N_OBS = 2
    /\ Stridey(cfg.bpg2, cfg.tpb2) < N_OBS
    /\ \A i \in Obs : <<"out", <<i>>>> \in Written

(***************************************************************************)
(* Termination of numba_cuda_solve                                         *)
(***************************************************************************)
\* The host is a sequential program that takes its next step when it can;
\* the device runs every launched kernel to completion: while a warp can
\* run, some warp runs.
HostStep ==
    HostAlloc \/ HostLaunchBlock \/ HostLaunchGlobal \/ HostSynchronize \/ HostReturn

DeviceStep ==
    \/ \E k \in Runnable(pc1) : Warp1Step(k)
    \/ \E k \in Runnable(pc2) : Warp2Step(k)

\* DeviceStep is enabled exactly when a kernel whose turn has come on the
\* stream has a warp that can run, and a step is one exactly when the
\* position of a warp changes.
DeviceCanRun ==
    \/ StreamReady(1) /\ Runnable(pc1) # {}
    \/ StreamReady(2) /\ Runnable(pc2) # {}

WarpMoves == pc1' # pc1 \/ pc2' # pc2

\* Weak fairness of DeviceStep, written with DeviceCanRun for ENABLED.
DeviceFair == []<>(~DeviceCanRun) \/ []<><<WarpMoves /\ hostpc' = hostpc>>_vars

SpecLive == Spec /\ WF_vars(HostStep) /\ DeviceFair

\* C32: every invocation of numba_cuda_solve returns, and then every warp
\* of both kernels has left its loop over the observations.
C32_Terminates ==
    <>(Returned /\ KernelDone(1) /\ KernelDone(2))

C32_Witness ==
    /\ Returned /\ N_OBS = 2 /\ N_REF = 1030
    /\ hostlog = <<"block_min_reduce", "global_min_reduce", "synchronize">>
    /\ Len(pc1) = 2 * NCols /\ Pending(pc1) = {} /\ Pending(pc2) = {}

(***************************************************************************)
(* Lanes, threads and cells of the two kernels                             *)
(***************************************************************************)
\* The thread <<threadIdx.x, threadIdx.y>> that is lane l of the warp that
\* starts at row w[3] of its block: threads are numbered threadIdx.x first
\* and a warp is 32 consecutive threads.
LaneThread(w, l, tpb) ==
    LET lin == w[3] * WarpSize + l
    IN  <<lin % tpb[1], lin \div tpb[1]>>

\* starty of lane l of warp w.
LaneStarty(w, l, tpb) == w[2] * tpb[2] + LaneThread(w, l, tpb)[2]

\* The observation of lane l in the iteration in which the first lane of its
\* warp is at observation i: every lane advances by stridey per iteration.
LaneObs(w, l, i, tpb) == i - Starty(w, tpb) + LaneStarty(w, l, tpb)

\* The warps that can execute their next reduction call, with the
\* observation of their first lane.
Calls1 ==
    IF StreamReady(1)
    THEN {<<WarpAt(k, cfg.bpg1, cfg.tpb1, N_OBS), pc1[k]>> : k \in Runnable(pc1)}
    ELSE {}

Calls2 ==
    IF StreamReady(2)
    THEN {<<WarpAt(k, cfg.bpg2, cfg.tpb2, N_OBS), pc2[k]>> : k \in Runnable(pc2)}
    ELSE {}

\* C23: at every call of the reduction in Phase 1 and in Phase 2 each of the
\* 32 lanes of the warp is inside its loop over observations: none has
\* skipped the loop or left it.
C23_AllLanesCall ==
    /\ \A c \in Calls1 : \A l \in Lanes : LaneObs(c[1], l, c[2], cfg.tpb1) < N_OBS
    /\ \A c \in Calls2 : \A l \in Lanes : LaneObs(c[1], l, c[2], cfg.tpb2) < N_OBS

C23_Witness ==
    /\ N_OBS = 2 /\ N_REF = 3
    /\ \E c \in Calls1 :
           /\ c[2] = 1 /\ BlockCol(c[1]) = 1
           /\ \A l \in Lanes : LaneRefs(c[1], l, cfg.bpg1, cfg.tpb1) = {}

\* C24: at every call of the reduction the 32 lanes of the warp are at the
\* same observation index.
C24_SameObservation ==
    /\ \A c \in Calls1 : \A l \in Lanes : LaneObs(c[1], l, c[2], cfg.tpb1) = c[2]
    /\ \A c \in Calls2 : \A l \in Lanes : LaneObs(c[1], l, c[2], cfg.tpb2) = c[2]

C24_Witness ==
    /\ N_OBS = 2 /\ N_REF = 1030
    /\ \E c \in Calls2 : c[2] = 1
    /\ out_dist[0] # Uninit

\* C25: Phase 1 compares every pair of an observation and a reference exactly
\* once: no comparison is repeated while the kernel runs, and when it is
\* complete every reference has been compared with every observation, also
\* with more references or observations than the grid has threads.
C25_EachPairOnce ==
    \A i \in DOMAIN evals :
        /\ evals[i].n = Cardinality(evals[i].refs)
        /\ KernelDone(1) => evals[i].refs = Refs

C25_Witness ==
    /\ KernelDone(1) /\ N_OBS = 2 /\ N_REF = 1030
    /\ Stridey(cfg.bpg1, cfg.tpb1) < N_OBS
    /\ Stridex(cfg.bpg1, cfg.tpb1) < N_REF
    /\ \A i \in Obs : evals[i].n = N_REF

\* The references scanned by the 32 threads of block column c.
ColRefs(c) == UNION {LaneRefs(<<c, 0, 0>>, tx, cfg.bpg1, cfg.tpb1) : tx \in Lanes}

\* C26: when Phase 1 is complete, cell [i, c] of the block arrays holds the
\* least distance from observation i to the references scanned by block
\* column c and the index of one of these references at that distance, and
\* holds the seed 1e11 with index 0 when the column scanned no reference.
C26_BlockPartial ==
    KernelDone(1) =>
        \A c \in 0 .. (NCols - 1) :
            LET S == ColRefs(c)
            IN  \A i \in Obs :
                    IF S = {}
                    THEN block_dist[<<i, c>>] = seed_block /\ block_idx[<<i, c>>] = 0
                    ELSE /\ block_dist[<<i, c>>] = Min({Dist(i, j) : j \in S})
                         /\ block_idx[<<i, c>>] \in S
                         /\ Dist(i, block_idx[<<i, c>>]) = block_dist[<<i, c>>]

C26_Witness ==
    /\ KernelDone(1) /\ N_OBS = 2 /\ N_REF = 3
    /\ block_dist[<<1, 0>>] < seed_block
    /\ block_dist[<<1, 1>>] = seed_block /\ block_idx[<<1, 1>>] = 0

\* C27: once Phase 2 has written the outputs of observation i, out_dist[i]
\* is the minimum of row i of block_dist over all 32 columns and out_idx[i]
\* is the block_idx entry of a column that holds this minimum.
C27_MinOverColumns ==
    \A i \in DOMAIN out_dist :
        out_dist[i] # Uninit =>
            /\ out_dist[i] = Min({block_dist[<<i, c>>] : c \in 0 .. (NCols - 1)})
            /\ \E c \in 0 .. (NCols - 1) :
                   /\ block_dist[<<i, c>>] = out_dist[i]
                   /\ block_idx[<<i, c>>] = out_idx[i]

C27_Witness ==
    /\ Returned /\ N_OBS = 2 /\ N_REF = 1030
    /\ out_dist[1] = 0 /\ out_idx[1] = 65
    /\ block_dist[<<1, 0>>] = 1 /\ block_dist[<<1, 2>>] = 0

\* The cells of row i a Phase 2 warp loads in one iteration: column
\* threadIdx.x for every thread whose loop over the columns has an iteration.
Phase2Reads(w, i) ==
    {<<i, tx>> : tx \in {t \in Lanes : Startx(w, t, cfg.tpb2) < NCols}}

\* C28: every cell of block_dist and block_idx that a Phase 2 iteration is
\* about to load has been written by Phase 1.
C28_ReadsWritten ==
    \A c \in Calls2 :
        \A cell \in Phase2Reads(c[1], c[2]) :
            /\ block_dist[cell] # Uninit /\ block_idx[cell] # Uninit
            /\ <<"block", cell>> \in Written

C28_Witness ==
    /\ N_OBS = 2 /\ N_REF = 3
    /\ \E c \in Calls2 : c[2] = 0 /\ Cardinality(Phase2Reads(c[1], c[2])) = NCols
    /\ out_dist[1] = Uninit

\* C29: the scan of a Phase 1 thread yields the seed 1e11 with index 0 when
\* it scans no reference, and else the least distance among the references
\* it scans with the lowest index among those at that distance.
C29_FirstScannedKept ==
    \A c \in Calls1 :
        LET scan == BlockScan(c[1], c[2], cfg.bpg1, cfg.tpb1)
        IN  \A tx \in Lanes :
                LET S == LaneRefs(c[1], tx, cfg.bpg1, cfg.tpb1)
                    m == Min({Dist(c[2], j) : j \in S})
                IN  IF S = {}
                    THEN scan.val[tx] = seed_block /\ scan.idx[tx] = 0
                    ELSE /\ scan.val[tx] = m
                         /\ scan.idx[tx] = Min({j \in S : Dist(c[2], j) = m})

C29_Witness ==
    /\ N_REF = 1030 /\ d_ref.near = {}
    /\ \E c \in Calls1 :
           /\ BlockCol(c[1]) = 0
           /\ Cardinality(LaneRefs(c[1], 0, cfg.bpg1, cfg.tpb1)) = 2
           /\ BlockScan(c[1], c[2], cfg.bpg1, cfg.tpb1).idx[0] = 0

(***************************************************************************)
(* The reduction alone, one shuffle step per action.                       *)
(***************************************************************************)
\* Inputs: every lane holds the same value f, the lowest or above the highest,
\* except up to two lanes p, q that hold a and b; idx of lane l is 100 + l,
\* so an idx names its lane.
WarpInputs ==
    { [val |-> [l \in Lanes |-> IF l = p THEN a ELSE IF l = q THEN b ELSE f],
       idx |-> [l \in Lanes |-> 100 + l]] :
        p \in Lanes, q \in Lanes, a \in 0 .. MaxLat, b \in 0 .. MaxLat,
        f \in {0, MaxLat + 1} }

SolveIdle ==
    /\ d_obs = << >> /\ d_ref = [n |-> 0, near |-> {}, lat |-> 0, fill |-> 0]
    /\ cfg = << >> /\ hostpc = "idle" /\ hostlog = << >> /\ launched = {}
    /\ pc1 = << >> /\ pc2 = << >>
    /\ block_dist = << >> /\ block_idx = << >> /\ out_dist = << >> /\ out_idx = << >>
    /\ wlog = {} /\ evals = << >>

InitWarp ==
    /\ win \in WarpInputs
    /\ wreg = win
    /\ wstep = 0
    /\ SolveIdle
    /\ MatIdle
    /\ DistIdle
    /\ CountIdle

WarpShuffle ==
    /\ wstep < Len(Offsets)
    /\ wreg' = ReduceStep(wreg, Offsets[wstep + 1])
    /\ wstep' = wstep + 1
    /\ UNCHANGED <<win, solveVars, matVars, distVars, countVars>>

NextWarp == WarpShuffle

SpecWarp == InitWarp /\ [][NextWarp]_vars

WarpDone == wstep = Len(Offsets)

MinLanes == {l \in Lanes : \A m \in Lanes : win.val[l] <= win.val[m]}

\* Reversal of the five bits of a lane number.
BitRev5(l) ==
    16 * (l % 2) + 8 * ((l \div 2) % 2) + 4 * ((l \div 4) % 2)
      + 2 * ((l \div 8) % 2) + ((l \div 16) % 2)

\* C4: after the five steps lane 0 holds the minimum of the 32 input values.
C4_Lane0HoldsMin ==
    WarpDone => wreg.val[0] = Min({win.val[l] : l \in Lanes})

C4_Witness ==
    /\ WarpDone
    /\ MinLanes = {31}
    /\ wreg.val[0] < win.val[0]

\* C5 (as claimed): among the lanes holding the minimal value, lane 0 ends
\* with the pair of the lowest-numbered one.
C5_LowestLaneWins ==
    WarpDone => wreg.idx[0] = win.idx[Min(MinLanes)]

\* C5 (amended): lane 0 ends with the pair of the lane holding the minimal
\* value whose bit-reversed lane number is smallest (lane 0 when it holds it).
C5_BitReversedLaneWins ==
    WarpDone =>
        \E l \in MinLanes :
            /\ \A m \in MinLanes : BitRev5(l) <= BitRev5(m)
            /\ wreg.idx[0] = win.idx[l]
            /\ wreg.val[0] = win.val[l]

C5_Witness ==
    /\ WarpDone
    /\ MinLanes = {1, 2}
    /\ wreg.idx[0] = win.idx[2]

\* The <<val, idx>> pairs the lanes held on entry.
EntryPairs == {<<win.val[m], win.idx[m]>> : m \in Lanes}

\* C37: each of the five steps leaves every lane with a <<val, idx>> pair
\* that some lane held on entry, and leaves a lane whose shuffle source
\* l + offset is beyond lane 31 with the pair it had before the step.
C37_PairsStayTogether ==
    [][wstep' = wstep + 1 =>
         \A l \in Lanes :
             /\ <<wreg'.val[l], wreg'.idx[l]>> \in EntryPairs
             /\ l + Offsets[wstep'] >= WarpSize =>
                    /\ wreg'.val[l] = wreg.val[l]
                    /\ wreg'.idx[l] = wreg.idx[l]]_vars

C37_Witness ==
    /\ wstep = 2
    /\ wreg.idx[0] = win.idx[24] /\ wreg.val[0] < win.val[0]
    /\ wreg.idx[24] = win.idx[24] /\ wreg.idx[31] = win.idx[31]
    /\ win.val[31] > win.val[15]

(***************************************************************************)
(* Lab6-Writing_CUDA_Kernels.ipynb: fast_matmul and the cell that runs it. *)
(*                                                                         *)
(* A, B and C are row-major buffers; an index [r, c] of an array with n    *)
(* columns is the address r * n + c, computed without a bounds check (a    *)
(* CUDA kernel of Numba checks no index).  An address inside the buffer    *)
(* reaches the element stored there; a load from an address outside it     *)
(* returns any value, a store to it leaves the buffer unchanged.           *)
(***************************************************************************)
\* Row-major address of [r, c] in an array of ncols columns.
Addr_Transposed(r, c, ncols) == c * ncols + r

Addr(r, c, ncols) == r * ncols + c

\* blocks_x, blocks_y: math.ceil of the shape over the threads per block.
CeilDiv(n, d) == (n + d - 1) \div d

GridX == CeilDiv(mat.M, TPB)
GridY == CeilDiv(mat.N, TPB)

MBlocks == (0 .. (GridX - 1)) \X (0 .. (GridY - 1))

Tile == (0 .. (TPB - 1)) \X (0 .. (TPB - 1))

\* A thread is <<blockIdx.x, blockIdx.y, threadIdx.x, threadIdx.y>>.
MThreads == {<<b[1], b[2], c[1], c[2]>> : b \in MBlocks, c \in Tile}

BlockOf(t) == <<t[1], t[2]>>

ThreadsOf(b) == {<<b[1], b[2], c[1], c[2]>> : c \in Tile}

\* x, y = cuda.grid(2)
Gx(t) == t[1] * TPB + t[3]
Gy(t) == t[2] * TPB + t[4]

\* range(int(A.shape[1] / TPB))
NChunks == mat.K \div TPB

\* if x >= C.shape[0] and y >= C.shape[1]: return
EarlyReturn(t) == Gx(t) >= mat.M /\ Gy(t) >= mat.N

\* The thread computes an element of C.
InC(t) == Gx(t) < mat.M /\ Gy(t) < mat.N

\* What the memory outside the buffers and the shared cells never stored can
\* hold: every such load of one run returns the same value, mat.junk.
MGarbage == {0, 5}

\* A[x, col] and B[row, y]; g is what a load outside the buffer returns.
ReadA(x, col, g) ==
    IF Addr(x, col, mat.K) < mat.M * mat.K THEN mat.A[Addr(x, col, mat.K)] ELSE g

ReadB(row, y, g) ==
    IF Addr(row, y, mat.N) < mat.KB * mat.N THEN mat.B[Addr(row, y, mat.N)] ELSE g

\* ty + i * TPB and tx + i * TPB
ACol(ty, i) == ty + i * TPB

BRow_NoChunk(tx, i) == tx

BRow(tx, i) == tx + i * TPB

\* A cell of a shared tile: the chunk it was stored for (-1: never stored)
\* and the value.
\* A cell of a tile: the chunk of its last store, the value, and the threads
\* <<threadIdx.x, threadIdx.y>> that stored into it for that chunk.
EmptyCell == [chunk |-> -1, val |-> 0, by |-> {}]

ShVal(cell, g) == IF cell.chunk = -1 THEN g ELSE cell.val

\* for j in range(TPB): tmp += sA[tx, j] * sB[j, ty], from j on.
RECURSIVE DotTile(_, _, _, _, _)
DotTile(tiles, tx, ty, j, g) ==
    IF j >= TPB THEN 0
    ELSE ShVal(tiles.sA[<<tx, j>>], g) * ShVal(tiles.sB[<<j, ty>>], g)
           + DotTile(tiles, tx, ty, j + 1, g)

(***************************************************************************)
(* The device running fast_matmul                                          *)
(***************************************************************************)
Finished(t) == thr[t].pc \in {"done", "returned"}

BlockDone(b) == \A t \in ThreadsOf(b) : Finished(t)

BlockStarted(b) == \E t \in ThreadsOf(b) : thr[t].pc # "entry"

\* Position of a block in the grid.
BlockIndex(b) == b[1] * GridY + b[2]

\* Blocks are resident one at a time, a block that has started until it is
\* complete; the next one is among the first MaxAhead + 1 of the grid not
\* yet run.
Resident(b) ==
    LET running == {c \in MBlocks : BlockStarted(c) /\ ~BlockDone(c)}
        waiting == {c \in MBlocks : ~BlockStarted(c)}
    IN  IF running # {} THEN b \in running
        ELSE /\ b \in waiting
             /\ BlockIndex(b) <= Min({BlockIndex(c) : c \in waiting}) + MaxAhead

\* cuda.syncthreads(): a thread leaves its n-th barrier when every thread of
\* the block has arrived at it.  A thread that returned before never arrives:
\* the behaviour is undefined, the barrier either counts it or waits for ever.
Released_Always(t) == TRUE

Released(t) ==
    \A u \in ThreadsOf(BlockOf(t)) :
        \/ thr[u].arr >= thr[t].arr
        \/ thr[u].pc = "returned" /\ hwExit

\* The thread has a step to take: it is at the entry, or at a barrier it can leave.
CanStep(t) ==
    \/ thr[t].pc = "entry"
    \/ thr[t].pc \in {"bar1", "bar2"} /\ Released(t)

\* Number of the thread in its block: threadIdx.x + threadIdx.y * blockDim.x.
ThreadIndex(t) == t[3] + t[4] * TPB

\* The scheduler runs any thread of the resident block that has a step to
\* take and is at most MaxAhead places after the first such thread.
Scheduled(t) ==
    /\ Resident(BlockOf(t))
    /\ CanStep(t)
    /\ \A u \in ThreadsOf(BlockOf(t)) :
           CanStep(u) => ThreadIndex(t) <= ThreadIndex(u) + MaxAhead

\* sA[tx, ty] = A[x, ty + i * TPB]; sB[tx, ty] = B[tx + i * TPB, y]
LoadTiles(tiles, t, i, g) ==
    [sA |-> [tiles.sA EXCEPT ![<<t[3], t[4]>>] =
                [chunk |-> i, val |-> ReadA(Gx(t), ACol(t[4], i), g),
                 by |-> IF @.chunk = i THEN @.by \cup {<<t[3], t[4]>>}
                                       ELSE {<<t[3], t[4]>>}]],
     sB |-> [tiles.sB EXCEPT ![<<t[3], t[4]>>] =
                [chunk |-> i, val |-> ReadB(BRow(t[3], i), Gy(t), g),
                 by |-> IF @.chunk = i THEN @.by \cup {<<t[3], t[4]>>}
                                       ELSE {<<t[3], t[4]>>}]]]

\* The loads of chunk i by thread t use an index outside A or B.
LoadOutside(t, i) ==
    \/ Gx(t) >= mat.M \/ ACol(t[4], i) >= mat.K
    \/ BRow(t[3], i) >= mat.KB \/ Gy(t) >= mat.N

\* The cells of the tiles thread t reads in the loop over j.
CellsRead(tiles, t) ==
    {tiles.sA[<<t[3], j>>] : j \in 0 .. (TPB - 1)}
        \cup {tiles.sB[<<j, t[4]>>] : j \in 0 .. (TPB - 1)}

\* C[x, y] = tmp
StoreC(c, t, tmp) ==
    IF Addr(Gx(t), Gy(t), mat.N) < mat.M * mat.N
    THEN [c EXCEPT ![Addr(Gx(t), Gy(t), mat.N)] = tmp]
    ELSE c

\* The thread after the store to C, made after i chunks.
AfterStore(r, t, i) ==
    [r EXCEPT !.pc = "done", !.i = i,
              !.wr = Append(@, <<Addr(Gx(t), Gy(t), mat.N), i>>),
              !.oob = @ \/ ~InC(t)]

\* From the entry of the kernel to the first barrier, or to the end when the
\* thread returns at the guard or the loop over i is empty.
ThreadEnter(t) ==
    /\ mhost = "synchronize"
    /\ thr[t].pc = "entry"
    /\ Scheduled(t)
    /\ IF EarlyReturn(t)
       THEN /\ thr' = [thr EXCEPT ![t].pc = "returned"]
            /\ UNCHANGED <<sh, mC>>
       ELSE IF NChunks = 0
       THEN /\ thr' = [thr EXCEPT ![t] = AfterStore(@, t, 0)]
            /\ mC' = StoreC(mC, t, thr[t].tmp)
            /\ UNCHANGED sh
       ELSE /\ sh' = [sh EXCEPT ![BlockOf(t)] = LoadTiles(@, t, 0, mat.junk)]
            /\ thr' = [thr EXCEPT ![t].pc = "bar1", ![t].arr = 1,
                                  ![t].oob = @ \/ LoadOutside(t, 0)]
            /\ UNCHANGED mC
    /\ UNCHANGED <<mat, mhost, hwExit, solveVars, warpVars,
                   distVars, countVars>>

\* From the first barrier of chunk i, through the loop over j, to the second.
ThreadCompute(t) ==
    /\ mhost = "synchronize"
    /\ thr[t].pc = "bar1"
    /\ Scheduled(t)
    /\ LET tiles == sh[BlockOf(t)]
       IN  thr' = [thr EXCEPT ![t].pc = "bar2", ![t].arr = @ + 1,
                        ![t].tmp = @ + DotTile(tiles, t[3], t[4], 0, mat.junk),
                        ![t].stale = @ \/ \E c \in CellsRead(tiles, t) :
                                                c.chunk # thr[t].i]
    /\ UNCHANGED <<mat, mC, mhost, hwExit, sh, solveVars, warpVars,
                   distVars, countVars>>

\* From the second barrier of chunk i to the first of chunk i + 1, or, after
\* the last chunk, through the store to C to the end.
ThreadAdvance(t) ==
    /\ mhost = "synchronize"
    /\ thr[t].pc = "bar2"
    /\ Scheduled(t)
    /\ LET i == thr[t].i + 1
       IN  IF i < NChunks
           THEN /\ sh' = [sh EXCEPT ![BlockOf(t)] = LoadTiles(@, t, i, mat.junk)]
                /\ thr' = [thr EXCEPT ![t].pc = "bar1", ![t].arr = @ + 1,
                                      ![t].i = i,
                                      ![t].oob = @ \/ LoadOutside(t, i)]
                /\ UNCHANGED mC
           ELSE /\ thr' = [thr EXCEPT ![t] = AfterStore(@, t, i)]
                /\ mC' = StoreC(mC, t, thr[t].tmp)
                /\ UNCHANGED sh
    /\ UNCHANGED <<mat, mhost, hwExit, solveVars, warpVars,
                   distVars, countVars>>

(***************************************************************************)
(* The cell that runs fast_matmul (host)                                   *)
(***************************************************************************)
\* np.matmul(A, B)[x, y], the triple loop from k on.
RECURSIVE np_matmul(_, _, _)
np_matmul(x, y, k) ==
    IF k >= mat.K THEN 0
    ELSE mat.A[Addr(x, k, mat.K)] * mat.B[Addr(k, y, mat.N)] + np_matmul(x, y, k + 1)

\* np.matmul raises ValueError when A.shape[1] != B.shape[0].
MatmulRaises_Never == FALSE

MatmulRaises == mat.K # mat.KB

\* np.allclose(result_serial, C)
AllClose ==
    \A x \in 0 .. (mat.M - 1), y \in 0 .. (mat.N - 1) :
        mC[Addr(x, y, mat.N)] = np_matmul(x, y, 0)

\* C = np.zeros((A.shape[0], B.shape[1]))
CellAlloc ==
    /\ mhost = "alloc"
    /\ mC' = [a \in 0 .. (mat.M * mat.N - 1) |-> 0]
    /\ mhost' = "launch"
    /\ UNCHANGED <<mat, hwExit, thr, sh, solveVars, warpVars,
                   distVars, countVars>>

\* fast_matmul[num_blocks, num_threads_per_block](A, B, C)
CellLaunch ==
    /\ mhost = "launch"
    /\ thr' = [t \in MThreads |->
                 [pc |-> "entry", i |-> 0, tmp |-> 0, arr |-> 0,
                  wr |-> << >>, oob |-> FALSE, stale |-> FALSE]]
    /\ sh' = [b \in MBlocks |->
                 [sA |-> [c \in Tile |-> EmptyCell], sB |-> [c \in Tile |-> EmptyCell]]]
    /\ mhost' = "synchronize"
    /\ UNCHANGED <<mat, mC, hwExit, solveVars, warpVars,
                   distVars, countVars>>

\* cuda.synchronize()
CellSynchronize ==
    /\ mhost = "synchronize"
    /\ \A t \in DOMAIN thr : Finished(t)
    /\ mhost' = "validate"
    /\ UNCHANGED <<mat, mC, hwExit, thr, sh, solveVars, warpVars,
                   distVars, countVars>>

\* result_serial = np.matmul(A, B); print("correct!" if np.allclose(...) else "incorrect.")
CellValidate ==
    /\ mhost = "validate"
    /\ mhost' = IF MatmulRaises THEN "ValueError"
                ELSE IF AllClose THEN "correct" ELSE "incorrect"
    /\ UNCHANGED <<mat, mC, hwExit, thr, sh, solveVars, warpVars,
                   distVars, countVars>>

(***************************************************************************)
(* Operands of the cell                                                    *)
(***************************************************************************)
\* <<A.shape[0], A.shape[1], B.shape[0], B.shape[1]>>: multiples of TPB, K
\* below TPB, M or N or both one above a multiple, K one above a multiple,
\* and B with more or fewer rows than A has columns.
MatShapes ==
    { <<TPB, TPB, TPB, TPB>>, <<2 * TPB, 2 * TPB, 2 * TPB, 2 * TPB>>,
      <<TPB, TPB - 1, TPB - 1, TPB>>,
      <<TPB + 1, TPB, TPB, TPB>>, <<TPB, TPB, TPB, TPB + 1>>,
      <<TPB + 1, TPB, TPB, TPB + 1>>,
      <<TPB, TPB + 1, TPB + 1, TPB>>,
      <<TPB, TPB, 2 * TPB, TPB>>, <<TPB, 2 * TPB, TPB, TPB>> }

AKinds == {"eye", "ramp"}
BKinds == {"ramp", "alt"}

\* Element [r, c] of a matrix of the given kind.
Elem(kind, r, c) ==
    IF kind = "eye" THEN (IF r = c THEN 1 ELSE 0)
    ELSE IF kind = "ramp" THEN 1 + ((r + 2 * c) % 3)
    ELSE 2 - ((r + c) % 2)

Buffer(kind, rows, cols) ==
    [a \in 0 .. (rows * cols - 1) |-> Elem(kind, a \div cols, a % cols)]

MatInputs ==
    { [M |-> s[1], K |-> s[2], KB |-> s[3], N |-> s[4], kindA |-> ka,
       A |-> Buffer(ka, s[1], s[2]), B |-> Buffer(kb, s[3], s[4]), junk |-> g] :
        s \in MatShapes, ka \in AKinds, kb \in BKinds, g \in MGarbage }

\* Some thread of the grid has x or y outside C, or loads a row outside B.
ShapeLoadsOutside(m) == m.M % TPB # 0 \/ m.N % TPB # 0 \/ m.KB < m.K

\* Some thread of the grid returns at the guard.
ShapeReturnsEarly(m) == m.M % TPB # 0 /\ m.N % TPB # 0

InitMatmul ==
    /\ mat \in {m \in MatInputs : ShapeLoadsOutside(m) \/ m.junk = 0}
    /\ mC = << >>
    /\ mhost = "alloc"
    /\ hwExit \in IF ShapeReturnsEarly(mat) THEN BOOLEAN ELSE {TRUE}
    /\ thr = << >> /\ sh = << >>
    /\ SolveIdle
    /\ WarpIdle
    /\ DistIdle
    /\ CountIdle

NextMatmul ==
    \/ CellAlloc
    \/ CellLaunch
    \/ CellSynchronize
    \/ CellValidate
    \/ \E t \in DOMAIN thr : ThreadEnter(t)
    \/ \E t \in DOMAIN thr : ThreadCompute(t)
    \/ \E t \in DOMAIN thr : ThreadAdvance(t)

SpecMatmul == InitMatmul /\ [][NextMatmul]_vars

\* cuda.synchronize() of the cell has returned.
Synchronized == mhost \in {"validate", "ValueError", "correct", "incorrect"}

\* The triple loop is defined: A has as many columns as B has rows.
Conformable == mat.K = mat.KB

\* C12: for conformable operands with K a multiple of TPB, whatever M and N,
\* fast_matmul leaves in every C[x, y] the sum over k of A[x, k] * B[k, y].
C12_TiledEqualsNaive ==
    (Synchronized /\ Conformable /\ mat.K % TPB = 0) => AllClose

\* C13: no thread returns at the guard while a thread of its block arrives
\* at a barrier: the threads of a block make the same number of
\* cuda.syncthreads() calls.
C13_NoReturnBeforeBarrier ==
    \A t \in DOMAIN thr :
        thr[t].pc = "returned" => \A u \in ThreadsOf(BlockOf(t)) : thr[u].arr = 0

\* C14: when K is not a multiple of TPB the kernel is never launched (an
\* error is reported instead) and C is not written.
C14_ErrorWhenKNotMultiple ==
    (Conformable /\ mat.K % TPB # 0) =>
        /\ thr = << >>
        /\ ~Synchronized
        /\ \A a \in DOMAIN mC : mC[a] = 0

C16_IdentityGivesB ==
    ( /\ Synchronized /\ mat.kindA = "eye"
      /\ mat.M = mat.K /\ Conformable /\ mat.KB = mat.N /\ mat.M % TPB = 0 ) =>
        mC = mat.B

C16_Witness ==
    /\ Synchronized /\ mat.kindA = "eye" /\ mat.M = 2 * TPB /\ mat.N = 2 * TPB
    /\ mC = mat.B
    /\ \E a, b \in DOMAIN mC : mC[a] # mC[b]

\* C17: a thread with an element of C stores to C once, that element, after
\* the last chunk; no thread stores to C inside the loop over the chunks.
C17_OneStoreAfterLoop ==
    \A t \in DOMAIN thr :
        /\ \A n \in 1 .. Len(thr[t].wr) : thr[t].wr[n][2] = NChunks
        /\ InC(t) =>
              /\ Len(thr[t].wr) <= 1
              /\ thr[t].pc = "done" => Len(thr[t].wr) = 1
              /\ \A n \in 1 .. Len(thr[t].wr) :
                     thr[t].wr[n][1] = Gx(t) * mat.N + Gy(t)

C17_Witness ==
    /\ Synchronized /\ NChunks = 2 /\ mat.M = 2 * TPB
    /\ \A t \in DOMAIN thr : InC(t) /\ Len(thr[t].wr) = 1

\* C20: every cell of sA and sB a thread reads in the loop over j of chunk i
\* holds the value stored for chunk i.
C20_ReadsCurrentChunk ==
    \A t \in DOMAIN thr : ~thr[t].stale

\* Thread u has not yet made its reads of chunk k of the tiles: it waits at
\* the barrier before the loop over j of chunk k, or, for the first chunk,
\* has not yet passed the guard it will pass.
ReadOutstanding(u, k) ==
    \/ thr[u].pc = "bar1" /\ thr[u].i = k
    \/ thr[u].pc = "entry" /\ ~EarlyReturn(u) /\ k = 0 /\ NChunks > 0

\* C21: no cell of sA or sB holds a value of chunk k + 1 while a thread of
\* the block has not yet made its reads of chunk k.
C21_NoStoreBeforeReads ==
    \A b \in DOMAIN sh :
        LET stored == {sh[b].sA[c].chunk : c \in Tile} \cup {sh[b].sB[c].chunk : c \in Tile}
        IN  \A u \in ThreadsOf(b) : \A k \in stored : ~ReadOutstanding(u, k - 1)

C21_Witness ==
    /\ NChunks = 2
    /\ \E t \in DOMAIN thr : \E u \in ThreadsOf(BlockOf(t)) :
           /\ thr[t].pc = "bar1" /\ thr[t].i = 1
           /\ sh[BlockOf(t)].sA[<<t[3], t[4]>>].chunk = 1
           /\ thr[u].pc = "bar2" /\ thr[u].i = 0

\* C22: when a thread leaves the barrier before the loop over j of chunk i,
\* every cell [tx, ty] of sA and of sB of its block has been stored for
\* chunk i by thread (tx, ty) and by no other thread.
C22_EveryCellOnce ==
    \A t \in DOMAIN thr :
        (thr[t].pc = "bar1" /\ Released(t)) =>
            \A c \in Tile :
                /\ sh[BlockOf(t)].sA[c].chunk = thr[t].i
                /\ sh[BlockOf(t)].sA[c].by = {c}
                /\ sh[BlockOf(t)].sB[c].chunk = thr[t].i
                /\ sh[BlockOf(t)].sB[c].by = {c}

\* C30: with conformable operands no thread loads from A or B or stores to
\* C with an index outside the array, and a thread whose x or y is outside C
\* does nothing but return.
C30_NoAccessOutside ==
    Conformable =>
        \A t \in DOMAIN thr :
            /\ ~thr[t].oob
            /\ ~InC(t) => thr[t].pc \in {"entry", "returned"}

(***************************************************************************)
(* The naive kernel matmul and the cell that runs it.  The cell has the    *)
(* statements of the fast_matmul cell (allocation of C, the ceil-based     *)
(* grid of TPB x TPB blocks, cuda.synchronize, np.matmul and np.allclose), *)
(* so CellAlloc, CellSynchronize and CellValidate are its host steps too.  *)
(***************************************************************************)
\* if row < C.shape[0] and col < C.shape[1]
NaiveGuard_RowOnly(t) == Gx(t) < mat.M

NaiveGuard(t) == Gx(t) < mat.M /\ Gy(t) < mat.N

\* for k in range(A.shape[1]): tmp += A[row, k] * B[k, col], from k on.
RECURSIVE NaiveDot(_, _, _)
NaiveDot(row, col, k) ==
    IF k >= mat.K THEN 0
    ELSE ReadA(row, k, mat.junk) * ReadB(k, col, mat.junk) + NaiveDot(row, col, k + 1)

\* Some load of the loop over k uses an index outside A or B.
NaiveLoadOutside(t) ==
    mat.K > 0 /\ (Gx(t) >= mat.M \/ Gy(t) >= mat.N \/ mat.K > mat.KB)

\* matmul[num_blocks, num_threads_per_block](A, B, C)
NaiveLaunch ==
    /\ mhost = "launch"
    /\ thr' = [t \in MThreads |->
                 [pc |-> "entry", tmp |-> 0, wr |-> << >>, oob |-> FALSE]]
    /\ mhost' = "synchronize"
    /\ UNCHANGED <<mat, mC, hwExit, sh, solveVars, warpVars, distVars, countVars>>

\* One thread, from cuda.grid(2) to the end of the kernel.
NaiveThread(t) ==
    /\ mhost = "synchronize"
    /\ thr[t].pc = "entry"
    /\ Scheduled(t)
    /\ IF NaiveGuard(t)
       THEN /\ thr' = [thr EXCEPT ![t] =
                         [pc |-> "done", tmp |-> NaiveDot(Gx(t), Gy(t), 0),
                          wr |-> <<Addr(Gx(t), Gy(t), mat.N)>>,
                          oob |-> NaiveLoadOutside(t) \/ ~InC(t)]]
            /\ mC' = StoreC(mC, t, NaiveDot(Gx(t), Gy(t), 0))
       ELSE /\ thr' = [thr EXCEPT ![t].pc = "returned"]
            /\ UNCHANGED mC
    /\ UNCHANGED <<mat, mhost, hwExit, sh, solveVars, warpVars, distVars, countVars>>

\* A of M x K and B of K x N, for the shapes of MatShapes with K = KB.
InitNaive ==
    /\ mat \in {m \in MatInputs : m.K = m.KB}
    /\ mC = << >>
    /\ mhost = "alloc"
    /\ hwExit = TRUE
    /\ thr = << >> /\ sh = << >>
    /\ SolveIdle /\ WarpIdle /\ DistIdle /\ CountIdle

NextNaive ==
    \/ CellAlloc
    \/ NaiveLaunch
    \/ CellSynchronize
    \/ CellValidate
    \/ \E t \in DOMAIN thr : NaiveThread(t)

SpecNaive == InitNaive /\ [][NextNaive]_vars

\* C31: for A of M x K and B of K x N, whatever M, N and K, no thread of
\* matmul uses an index outside A, B or C, a thread with row or col outside
\* C does nothing, every other thread stores its own element once, and after
\* the kernel every C[row, col] is the sum over k of A[row, k] * B[k, col].
C31_NaiveProduct ==
    /\ \A t \in DOMAIN thr :
           /\ ~thr[t].oob
           /\ ~InC(t) => thr[t].pc \in {"entry", "returned"} /\ thr[t].wr = << >>
           /\ (InC(t) /\ thr[t].pc = "done") => thr[t].wr = <<Gx(t) * mat.N + Gy(t)>>
    /\ Synchronized =>
           /\ AllClose
           /\ \A t \in DOMAIN thr : InC(t) => thr[t].pc = "done"
    /\ mhost \notin {"incorrect", "ValueError"}

C31_Witness ==
    /\ mhost = "correct"
    /\ mat.M = TPB + 1 /\ mat.N = TPB + 1 /\ mat.kindA = "ramp"
    /\ \E t \in DOMAIN thr : thr[t].pc = "returned" /\ Gx(t) < mat.M
    /\ \E t \in DOMAIN thr : thr[t].pc = "done" /\ thr[t].tmp > 1

(***************************************************************************)
(* distance_matrix_serial, distance_matrix_cuda and                        *)
(* distance_matrix_cuda_optimized, and the cells that run the kernels.     *)
(*                                                                         *)
(* data is a row-major n x 2 buffer of integer coordinates and             *)
(* distance_matrix a row-major n x n buffer; as for fast_matmul no index   *)
(* is checked: a load from an address outside data returns data.junk and   *)
(* a store to an address outside distance_matrix leaves it unchanged.      *)
(* The square root is the integer square root.                             *)
(***************************************************************************)
N_PTS == data.n

ISqrt(m) == CHOOSE r \in 0 .. m : r * r <= m /\ m < (r + 1) * (r + 1)

\* data[r, c]
DataAt(r, c) ==
    IF r * 2 + c < 2 * N_PTS THEN data.buf[r * 2 + c] ELSE data.junk

\* distance.euclidean(data[i], data[j]): over the whole rows, from column c on.
RECURSIVE SumSquares(_, _, _)
SumSquares(i, j, c) ==
    IF c >= 2 THEN 0
    ELSE (data.buf[i * 2 + c] - data.buf[j * 2 + c]) * (data.buf[i * 2 + c] - data.buf[j * 2 + c])
           + SumSquares(i, j, c + 1)

distance_euclidean(i, j) == ISqrt(SumSquares(i, j, 0))

\* distance_matrix_serial(data): the matrix the double loop returns.
distance_matrix_serial ==
    [a \in 0 .. (N_PTS * N_PTS - 1) |-> distance_euclidean(a \div N_PTS, a % N_PTS)]

\* ((p0 - data[j,0])**2 + (p1 - data[j,1])**2)**0.5
KernelDist(p0, p1, j) ==
    ISqrt((p0 - DataAt(j, 0)) * (p0 - DataAt(j, 0))
            + (p1 - DataAt(j, 1)) * (p1 - DataAt(j, 1)))

\* Address of distance_matrix[i, j].
DAddr_NoRow(i, j) == j

DAddr(i, j) == i * N_PTS + j

\* distance_matrix[i, j] = v
DStore(dm, i, j, v) ==
    IF DAddr(i, j) < N_PTS * N_PTS THEN [dm EXCEPT ![DAddr(i, j)] = v] ELSE dm

\* The threads of the launch.  distance_matrix_cuda: blocks of one thread,
\* a thread is <<blockIdx.x, blockIdx.y>>; distance_matrix_cuda_optimized:
\* a thread is <<blockIdx.x, threadIdx.x>>.
DThreads == (0 .. (dcfg.gx - 1)) \X (0 .. (dcfg.gy - 1))

DThreadIndex(t) == t[1] * dcfg.gy + t[2]

\* cuda.syncthreads() of distance_matrix_cuda_optimized: every thread of
\* the block has arrived.
BlockArrived_Always(t) == TRUE

BlockArrived(t) == \A u \in DThreads : u[1] = t[1] => dthr[u].pc # "entry"

DCanStep(t) ==
    \/ dthr[t].pc = "entry"
    \/ dthr[t].pc = "bar" /\ BlockArrived(t)

\* The scheduler runs any thread that has a step to take and is at most
\* MaxAhead places after the first such thread.
DScheduled(t) ==
    /\ DCanStep(t)
    /\ \A u \in DThreads : DCanStep(u) => DThreadIndex(t) <= DThreadIndex(u) + MaxAhead

\* if i > len(data) or j > len(data): return
SimpleReturns(t) == t[1] > N_PTS \/ t[2] > N_PTS

\* distance_matrix_cuda, one thread from cuda.grid(2) to the end.
SimpleThread(t) ==
    /\ dhost = "synchronize" /\ dcfg.kernel = "cuda"
    /\ dthr[t].pc = "entry"
    /\ DScheduled(t)
    /\ IF SimpleReturns(t)
       THEN /\ dthr' = [dthr EXCEPT ![t].pc = "returned"]
            /\ UNCHANGED distance_matrix
       ELSE /\ distance_matrix' =
                   DStore(distance_matrix, t[1], t[2],
                          KernelDist(DataAt(t[1], 0), DataAt(t[1], 1), t[2]))
            /\ dthr' = [dthr EXCEPT ![t].pc = "done",
                                    ![t].wr = Append(@, DAddr(t[1], t[2])),
                                    ![t].oob = t[1] >= N_PTS \/ t[2] >= N_PTS]
    /\ UNCHANGED <<data, dcfg, dhost, solveVars, warpVars, matVars, countVars>>

\* current_point[c]: the name is bound to the row data[i] when the thread
\* made the assignment of line 328, and else to the shared array, which no
\* thread ever stores into.
\* (cp is the row, or SharedArray.)
SharedArray == -1

CurrentPoint(cp, c) == IF cp = SharedArray THEN data.junk ELSE DataAt(cp, c)

\* distance_matrix_cuda_optimized, from the entry to the barrier.
OptEnter(t) ==
    /\ dhost = "synchronize" /\ dcfg.kernel = "optimized"
    /\ dthr[t].pc = "entry"
    /\ DScheduled(t)
    /\ dthr' = [dthr EXCEPT ![t].pc = "bar",
                            ![t].cp = IF t[1] < N_PTS THEN t[1] ELSE SharedArray]
    /\ UNCHANGED <<data, distance_matrix, dcfg, dhost,
                   solveVars, warpVars, matVars, countVars>>

\* distance_matrix_cuda_optimized, from the barrier to the end.
OptWrite(t) ==
    /\ dhost = "synchronize" /\ dcfg.kernel = "optimized"
    /\ dthr[t].pc = "bar"
    /\ DScheduled(t)
    /\ IF t[2] < N_PTS
       THEN /\ distance_matrix' =
                   DStore(distance_matrix, t[1], t[2],
                          KernelDist(CurrentPoint(dthr[t].cp, 0),
                                     CurrentPoint(dthr[t].cp, 1), t[2]))
            /\ dthr' = [dthr EXCEPT ![t].pc = "done",
                                    ![t].wr = Append(@, DAddr(t[1], t[2])),
                                    ![t].oob = t[1] >= N_PTS]
       ELSE /\ dthr' = [dthr EXCEPT ![t].pc = "done"]
            /\ UNCHANGED distance_matrix
    /\ UNCHANGED <<data, dcfg, dhost, solveVars, warpVars, matVars, countVars>>

\* result = np.zeros((n_samples, n_samples), dtype=float)
DistAlloc ==
    /\ dhost = "alloc"
    /\ distance_matrix' = [a \in 0 .. (N_PTS * N_PTS - 1) |-> 0]
    /\ dhost' = "launch"
    /\ UNCHANGED <<data, dcfg, dthr, solveVars, warpVars, matVars, countVars>>

\* kernel[num_blocks, num_threads_per_block](xy_coordinates, result)
DistLaunch ==
    /\ dhost = "launch"
    /\ dthr' = [t \in DThreads |->
                  [pc |-> "entry", cp |-> SharedArray, wr |-> << >>, oob |-> FALSE]]
    /\ dhost' = "synchronize"
    /\ UNCHANGED <<data, distance_matrix, dcfg, solveVars, warpVars, matVars, countVars>>

\* cuda.synchronize()
DistSynchronize ==
    /\ dhost = "synchronize"
    /\ \A t \in DOMAIN dthr : dthr[t].pc \in {"done", "returned"}
    /\ dhost' = "validate"
    /\ UNCHANGED <<data, distance_matrix, dcfg, dthr, solveVars, warpVars, matVars, countVars>>

\* print("correct!" if np.allclose(result_serial, result) else "incorrect.")
DistValidate ==
    /\ dhost = "validate"
    /\ dhost' = IF distance_matrix = distance_matrix_serial THEN "correct" ELSE "incorrect"
    /\ UNCHANGED <<data, distance_matrix, dcfg, dthr, solveVars, warpVars, matVars, countVars>>

\* The points: on a line, the corners of a 3 x 4 rectangle, or all equal.
PtKinds == {"line", "rect", "same"}

Coord(kind, i, c) ==
    IF kind = "line" THEN (IF c = 0 THEN i ELSE 0)
    ELSE IF kind = "same" THEN 1
    ELSE IF c = 0 THEN (IF i % 4 \in {1, 2} THEN 3 ELSE 0)
    ELSE (IF i % 4 \in {1, 3} THEN 4 ELSE 0)

DataInputs ==
    { [n |-> n, kind |-> kind, junk |-> g,
       buf |-> [a \in 0 .. (2 * n - 1) |-> Coord(kind, a \div 2, a % 2)]] :
        n \in 1 .. MaxPts, kind \in PtKinds, g \in {0, 7} }

\* The launches of the two cells, n x n blocks of one thread and n blocks
\* of n threads, and for distance_matrix_cuda also grids larger than n.
DistLaunches(n) ==
    { [kernel |-> "cuda", gx |-> n + a, gy |-> n + b] :
          a \in 0 .. 2, b \in 0 .. 2 }
      \cup { [kernel |-> "optimized", gx |-> n, gy |-> n] }

InitDist ==
    /\ data \in DataInputs
    /\ dcfg \in DistLaunches(data.n)
    /\ (dcfg.gx > data.n \/ dcfg.gy > data.n) \/ data.junk = 0
    /\ distance_matrix = << >> /\ dthr = << >>
    /\ dhost = "alloc"
    /\ SolveIdle /\ WarpIdle /\ MatIdle /\ CountIdle

NextDist ==
    \/ DistAlloc
    \/ DistLaunch
    \/ DistSynchronize
    \/ DistValidate
    \/ \E t \in DOMAIN dthr : SimpleThread(t)
    \/ \E t \in DOMAIN dthr : OptEnter(t)
    \/ \E t \in DOMAIN dthr : OptWrite(t)

SpecDist == InitDist /\ [][NextDist]_vars

DSynchronized == dhost \in {"validate", "correct", "incorrect"}

\* The number of stores made to address a: a thread makes at most one.
StoresTo(a) ==
    Cardinality({t \in DOMAIN dthr : dthr[t].wr = <<a>>})

\* C33: on the grid of n x n blocks of one thread, when distance_matrix_cuda
\* is complete every cell of the matrix has been stored exactly once and
\* the matrix is the one distance_matrix_serial returns.
C33_SimpleEqualsSerial ==
    (dcfg.kernel = "cuda" /\ dcfg.gx = N_PTS /\ dcfg.gy = N_PTS) =>
        /\ \A a \in DOMAIN distance_matrix : StoresTo(a) <= 1
        /\ DSynchronized =>
               /\ \A a \in DOMAIN distance_matrix : StoresTo(a) = 1
               /\ distance_matrix = distance_matrix_serial
        /\ dhost # "incorrect"

C33_Witness ==
    /\ dcfg.kernel = "cuda" /\ dcfg.gx = N_PTS /\ dcfg.gy = N_PTS
    /\ dhost = "correct" /\ N_PTS = MaxPts /\ data.kind = "rect"
    /\ distance_matrix[DAddr(0, 1)] = 5 /\ distance_matrix[DAddr(1, 0)] = 5

\* C34: on any grid, a thread of distance_matrix_cuda with i or j outside
\* 0..n-1 returns without a load from data or a store to distance_matrix.
C34_GuardStopsOutside ==
    dcfg.kernel = "cuda" =>
        \A t \in DOMAIN dthr :
            (t[1] >= N_PTS \/ t[2] >= N_PTS) =>
                /\ dthr[t].pc \in {"entry", "returned"}
                /\ ~dthr[t].oob /\ dthr[t].wr = << >>

\* C35: with n blocks of n threads no thread of distance_matrix_cuda_optimized
\* is past the barrier while a thread of its block has not arrived, and when
\* the kernel is complete every thread has passed it, every cell of the
\* matrix has been stored exactly once, and the matrix is the one
\* distance_matrix_serial returns.
C35_OptimizedEqualsSerial ==
    dcfg.kernel = "optimized" =>
        /\ \A t \in DOMAIN dthr : \A u \in DOMAIN dthr :
               (dthr[t].pc = "done" /\ u[1] = t[1]) => dthr[u].pc # "entry"
        /\ \A a \in DOMAIN distance_matrix : StoresTo(a) <= 1
        /\ DSynchronized =>
               /\ \A t \in DOMAIN dthr : dthr[t].pc = "done" /\ dthr[t].cp = t[1]
               /\ \A a \in DOMAIN distance_matrix : StoresTo(a) = 1
               /\ distance_matrix = distance_matrix_serial
        /\ dhost # "incorrect"

C35_Witness ==
    /\ dcfg.kernel = "optimized"
    /\ dhost = "correct" /\ N_PTS = MaxPts /\ data.kind = "rect"
    /\ distance_matrix[DAddr(1, 0)] = 5 /\ distance_matrix[DAddr(1, 1)] = 0

(***************************************************************************)
(* lessthank_forloop and lessthank_vectorize (vectorization tutorial).     *)
(*                                                                         *)
(* X is a sequence, X[i] of the code is X[i + 1].  lt.pc follows the cell: *)
(* the for loop runs, then the vectorized count.                           *)
(***************************************************************************)
\* if X[i] < k
ElemLess_OrEqual(x, k) == x <= k

ElemLess(x, k) == x < k

\* (X < k): the boolean array of the elementwise comparison.
LessThan(X, k) == [n \in DOMAIN X |-> X[n] < k]

\* np.count_nonzero(a) of a boolean array: the number of True, from n on.
RECURSIVE count_nonzero(_, _)
count_nonzero(a, n) ==
    IF n > Len(a) THEN 0
    ELSE (IF a[n] # FALSE THEN 1 ELSE 0) + count_nonzero(a, n + 1)

\* One iteration of for i in range(len(X)).
ForLoopStep ==
    /\ lt.pc = "forloop"
    /\ lt.i < Len(lt.X)
    /\ lt' = [lt EXCEPT !.count = IF ElemLess(lt.X[lt.i + 1], lt.k) THEN @ + 1 ELSE @,
                         !.i = @ + 1]
    /\ UNCHANGED <<solveVars, warpVars, matVars, distVars>>

\* return count
ForLoopReturn ==
    /\ lt.pc = "forloop"
    /\ lt.i >= Len(lt.X)
    /\ lt' = [lt EXCEPT !.forloop = lt.count, !.pc = "vectorize"]
    /\ UNCHANGED <<solveVars, warpVars, matVars, distVars>>

\* lessthank_vectorize
Vectorize ==
    /\ lt.pc = "vectorize"
    /\ lt' = [lt EXCEPT !.num_lessthan_k = count_nonzero(LessThan(lt.X, lt.k), 1),
                         !.pc = "done"]
    /\ UNCHANGED <<solveVars, warpVars, matVars, distVars>>

RECURSIVE SeqsUpTo(_, _)
SeqsUpTo(S, n) ==
    IF n = 0 THEN {<< >>}
    ELSE LET shorter == SeqsUpTo(S, n - 1)
         IN  shorter \cup {Append(q, x) : q \in shorter, x \in S}

InitCount ==
    /\ lt \in [X : SeqsUpTo(-1 .. MaxVal, MaxLen), k : -1 .. (MaxVal + 1),
                pc : {"forloop"}, i : {0}, count : {0},
                forloop : {-1}, num_lessthan_k : {-1}]
    /\ SolveIdle /\ WarpIdle /\ MatIdle /\ DistIdle

NextCount == ForLoopStep \/ ForLoopReturn \/ Vectorize

SpecCount == InitCount /\ [][NextCount]_vars

\* C36: the for loop and the vectorized count return the same number, the
\* number of elements of X strictly less than k.
C36_SameCount ==
    lt.pc = "done" =>
        /\ lt.forloop = lt.num_lessthan_k
        /\ lt.forloop = Cardinality({n \in DOMAIN lt.X : lt.X[n] < lt.k})

C36_Witness ==
    /\ lt.pc = "done" /\ Len(lt.X) = MaxLen
    /\ lt.X[1] = lt.k /\ lt.X[2] < lt.k /\ lt.X[3] > lt.k
    /\ lt.forloop = 1 /\ lt.num_lessthan_k = 1
====
